---- MODULE Spec2Model ----
(***************************************************************************)
(* ObsidiRAG: the file-status store (databases/file/crud.py), the watchdog  *)
(* handler that turns filesystem notifications into store mutations        *)
(* (core/monitor/handler.py), and the trigger-indexing request with the    *)
(* indexing pipeline behind it (core/indexing/api.py, index.py).           *)
(*                                                                         *)
(* A coroutine is modelled as a sequence of steps, one step per database   *)
(* round trip (an awaited execute+commit, or an awaited select): between   *)
(* two steps of one coroutine any other coroutine of the event loop, and   *)
(* any other thread, may run.                                              *)
(***************************************************************************)
EXTENDS Integers, Sequences, FiniteSets, TLC

VARIABLES
    store,        \* table file_status: id -> [name, path, status]
    nextId,       \* the next value uuid4() hands out (ids are never reused)
    loopCaptured, \* WatchdogHandler._loop is not None
    tasks,        \* one entry per non-directory notification, in delivery order
    req,          \* the run_indexing request in flight (or the idle record)
    quota,        \* what the environment may still send: notifications and request paths
    tableExists,  \* the LanceDB table obsidirag_index exists
    rows,         \* its rows, in insertion order
    call,         \* the last call made into index.py or the remove endpoint, with what it returned
    manager       \* the WatchdogManager: the observer it holds, the observers it has made, its last call

vars == <<store, nextId, loopCaptured, tasks, req, quota, tableExists, rows, call, manager>>

-----------------------------------------------------------------------------
(* Bounds of the model *)

MaxEvents == 3      \* watch notifications of one behaviour of the watcher alone
MaxCalls == 2       \* files and calls of one behaviour of the indexing module alone
MaxRequests == 3    \* request paths and remove requests of one behaviour of the API alone
MaxLen == 6         \* units of the text handed to chunk_text
MaxWindow == 4      \* units of its window
MaxLimit == 2       \* the limit of a search
MaxOps == 3         \* manager calls and watch notifications of one behaviour of the watch subsystem
MaxInputs == 2      \* watch notifications and request paths of one behaviour of the service

(* Program constants *)

CHUNK_SIZE == 1000
CHUNK_OVERLAP == 200

(* The result of scalar_one_or_none(): None, the row, or the exception raised
   when more than one row matches. Rows are named by their id, a positive
   number. *)
None == 0
MultipleResultsFound == -1

FileStatusEnum == {"PENDING", "MODIFIED", "SYNCED", "DELETED", "ERROR"}

(* Paths are sequences of segments; two directories hold a file of the same
   base name, so that path and name are different things. *)
Paths == {<<"notes", "a.md">>, <<"notes", "b.md">>, <<"daily", "a.md">>}

(* os.path.basename(path) *)
Basename(path) == path[Len(path)]

(* new_path.split("/")[-1] *)
SplitLast(path) == path[Len(path)]

-----------------------------------------------------------------------------
(* databases/file/crud.py on the table as a function id -> row *)

IdsAtPath(s, path) == {id \in DOMAIN s : s[id].path = path}

ScalarOneOrNone(S) ==
    IF S = {} THEN None
    ELSE IF Cardinality(S) = 1 THEN CHOOSE id \in S : TRUE
    ELSE MultipleResultsFound

get_file_status_by_path(s, path) == ScalarOneOrNone(IdsAtPath(s, path))

get_file_status(s, file_id) == ScalarOneOrNone({id \in DOMAIN s : id = file_id})

create_file_status(s, fs) ==
    [id \in DOMAIN s \cup {fs.id} |->
        IF id = fs.id THEN [name |-> fs.name, path |-> fs.path, status |-> fs.status]
        ELSE s[id]]

update_file_status(s, file_id, new_status) ==
    [id \in DOMAIN s |->
        IF id = file_id THEN [s[id] EXCEPT !.status = new_status] ELSE s[id]]

delete_file_status(s, file_id) ==
    [id \in DOMAIN s \ {file_id} |-> s[id]]

rename_file_status(s, old_path, new_path) ==
    [id \in DOMAIN s |->
        IF s[id].path = old_path
        THEN [s[id] EXCEPT !.path = new_path, !.name = SplitLast(new_path)]
        ELSE s[id]]

-----------------------------------------------------------------------------
(* core/monitor/manager.py: the state of a WatchdogManager *)

NoManagerCall == [n |-> 0, op |-> "none"]

(* WatchdogManager.__init__: self._observer = None. Observers are named by
   their place in threads, the observers made so far; each is "unstarted",
   "running", "stopping" (stop() has set its stop event) or "dead". *)
NoManager == [observer |-> None, threads |-> <<>>, last |-> NoManagerCall]

(* a manager whose start() has succeeded once *)
Watching == [observer |-> 1, threads |-> <<"running">>, last |-> NoManagerCall]

(* an observer thread that dispatches notifications to the handler *)
Accepting == \E k \in 1..Len(manager.threads) : manager.threads[k] = "running"

-----------------------------------------------------------------------------
(* core/monitor/handler.py *)

NoPath == <<>>

(* The coroutine a notification creates. pc: "start" (no store step yet),
   "looked" (the lookup by path found a row, the update/delete is still to
   come), "done". muts counts the mutating statements it has executed. *)
NewTask(kind, src, dest, id, exec) ==
    [kind |-> kind, src |-> src, dest |-> dest, id |-> id,
     pc |-> "start", existing |-> None, muts |-> 0, exec |-> exec]

(* A handler that hands every coroutine to a loop, captured or not *)
HandoffAlwaysToLoop == "loop"

(* if self._loop: asyncio.run_coroutine_threadsafe(coro, self._loop)
   else: asyncio.run(coro) -- where the coroutine of a notification runs *)
Handoff == IF loopCaptured THEN "loop" ELSE "watcher"

Pending(t) == t.pc # "done"

(* With no loop captured, asyncio.run() blocks the watcher thread until the
   coroutine has finished: the observer delivers the next notification only
   then. *)
WatcherBusy == \E i \in 1..Len(tasks) : tasks[i].exec = "watcher" /\ Pending(tasks[i])

CanDeliver == quota > 0 /\ ~WatcherBusy /\ Accepting

Deliver == quota' = quota - 1

Schedule(task) ==
    /\ Deliver
    /\ tasks' = Append(tasks, task)
    /\ UNCHANGED <<store, loopCaptured, req, tableExists, rows, call, manager>>

on_created(src) ==
    /\ CanDeliver
    /\ nextId' = nextId + 1
    /\ Schedule(NewTask("created", src, NoPath, nextId, Handoff))

on_modified(src) ==
    /\ CanDeliver
    /\ UNCHANGED nextId
    /\ Schedule(NewTask("modified", src, NoPath, None, Handoff))

on_deleted(src) ==
    /\ CanDeliver
    /\ UNCHANGED nextId
    /\ Schedule(NewTask("deleted", src, NoPath, None, Handoff))

on_moved(src, dest) ==
    /\ CanDeliver
    /\ UNCHANGED nextId
    /\ Schedule(NewTask("moved", src, dest, None, Handoff))

(* event.is_directory: every on_* callback returns at once *)
on_directory_event ==
    /\ CanDeliver
    /\ Deliver
    /\ UNCHANGED <<store, nextId, loopCaptured, tasks, req, tableExists, rows, call, manager>>

(* One coroutine of the event loop runs at a time, and index_files() is a
   synchronous call: while it runs, the loop thread runs nothing else. A
   coroutine run by asyncio.run() on the watcher thread is not held up. *)
CanStep(t) == Pending(t) /\ (t.exec = "loop" => req.pc # "index")

Finish(i, st, existing, muts) ==
    /\ store' = st
    /\ tasks' = [tasks EXCEPT ![i].pc = "done", ![i].existing = existing,
                              ![i].muts = tasks[i].muts + muts]
    /\ UNCHANGED <<nextId, loopCaptured, req, quota, tableExists, rows, call, manager>>

(* _create_file_status_async: one insert *)
create_file_status_async(i) ==
    /\ tasks[i].kind = "created" /\ tasks[i].pc = "start" /\ CanStep(tasks[i])
    /\ LET file_status == [id |-> tasks[i].id, name |-> Basename(tasks[i].src),
                           path |-> tasks[i].src, status |-> "PENDING"]
       IN Finish(i, create_file_status(store, file_status), None, 1)

(* A lookup that inserts the row it does not find *)
lookup_by_path_async_upsert(i) ==
    /\ tasks[i].kind \in {"modified", "deleted"} /\ tasks[i].pc = "start"
    /\ CanStep(tasks[i])
    /\ nextId' = nextId + 1
    /\ LET existing == get_file_status_by_path(store, tasks[i].src)
           file_status == [id |-> nextId, name |-> Basename(tasks[i].src),
                           path |-> tasks[i].src, status |-> "PENDING"]
       IN /\ store' = IF existing = None THEN create_file_status(store, file_status)
                                         ELSE store
          /\ tasks' = IF existing \in {None, MultipleResultsFound}
                      THEN [tasks EXCEPT ![i].pc = "done", ![i].existing = existing,
                                         ![i].muts = IF existing = None THEN 1 ELSE 0]
                      ELSE [tasks EXCEPT ![i].pc = "looked", ![i].existing = existing]
    /\ UNCHANGED <<loopCaptured, req, quota, tableExists, rows, call, manager>>

(* _update_file_status_async and _delete_file_status_async up to the end of
   their first await: the lookup by path. No row, or the exception of
   scalar_one_or_none(), ends the coroutine. *)
lookup_by_path_async(i) ==
    /\ tasks[i].kind \in {"modified", "deleted"} /\ tasks[i].pc = "start"
    /\ CanStep(tasks[i])
    /\ LET existing == get_file_status_by_path(store, tasks[i].src)
       IN IF existing \in {None, MultipleResultsFound}
          THEN Finish(i, store, existing, 0)
          ELSE /\ tasks' = [tasks EXCEPT ![i].pc = "looked", ![i].existing = existing]
               /\ UNCHANGED <<store, nextId, loopCaptured, req, quota, tableExists, rows, call, manager>>

(* _update_file_status_async after the lookup: update by id *)
update_file_status_async(i) ==
    /\ tasks[i].kind = "modified" /\ tasks[i].pc = "looked" /\ CanStep(tasks[i])
    /\ Finish(i, update_file_status(store, tasks[i].existing, "MODIFIED"),
              tasks[i].existing, 1)

(* _delete_file_status_async after the lookup: delete by id *)
delete_file_status_async(i) ==
    /\ tasks[i].kind = "deleted" /\ tasks[i].pc = "looked" /\ CanStep(tasks[i])
    /\ Finish(i, delete_file_status(store, tasks[i].existing), tasks[i].existing, 1)

(* _rename_file_status_async: one update ... where path = old_path *)
rename_file_status_async(i) ==
    /\ tasks[i].kind = "moved" /\ tasks[i].pc = "start" /\ CanStep(tasks[i])
    /\ Finish(i, rename_file_status(store, tasks[i].src, tasks[i].dest), None, 1)

-----------------------------------------------------------------------------
(* core/monitor/manager.py: start, stop, restart. What Observer.start(),
   Observer.stop() and Observer.join(timeout) do is drawn as the outcome of
   the call. stop() sets the stop event of the observer thread before
   anything of it can raise, so the thread dispatches no further
   notification; join(timeout) returns when the thread has ended ("ok") or
   when the timeout has passed with the thread still winding down. *)

StartOutcomes == {"ok", "start_raises"}
StopOutcomes == {"ok", "stop_raises", "join_raises", "join_timeout"}

(* A start() that makes an observer whether or not one is held *)
start_unguarded(m, outcome) ==
    LET k == Len(m.threads) + 1
    IN IF outcome = "ok"
       THEN [m EXCEPT !.observer = k, !.threads = Append(m.threads, "running")]
       ELSE [m EXCEPT !.observer = None, !.threads = Append(m.threads, "unstarted")]

(* start(): nothing if an observer is held; else a new Observer is made,
   scheduled and started, and dropped again if its start() raises *)
start(m, outcome) ==
    IF m.observer # None THEN m
    ELSE LET k == Len(m.threads) + 1
         IN IF outcome = "ok"
            THEN [m EXCEPT !.observer = k, !.threads = Append(m.threads, "running")]
            ELSE [m EXCEPT !.observer = None, !.threads = Append(m.threads, "unstarted")]

(* stop(timeout): nothing if no observer is held; else observer.stop(),
   observer.join(timeout), and self._observer = None in the finally block *)
stop(m, outcome) ==
    IF m.observer = None THEN m
    ELSE [m EXCEPT !.observer = None,
                   !.threads[m.observer] = IF outcome = "ok" THEN "dead" ELSE "stopping"]

(* restart(): self.stop(); self.start() *)
restart(m, stop_outcome, start_outcome) == start(stop(m, stop_outcome), start_outcome)

(* is_running: an observer is held and its thread is alive *)
is_running(m) ==
    m.observer # None /\ m.threads[m.observer] \in {"running", "stopping"}

PendingTasks == {i \in 1..Len(tasks) : Pending(tasks[i])}

(* A call of the manager, made on the loop thread (the lifespan coroutine of
   main.py calls start() and stop()): no coroutine of the loop runs while it
   lasts. last keeps the call: what it was, the observer held when it was
   made, and the coroutines handed to the loop and unfinished on its return. *)
ManagerCall(m, op, outcome) ==
    /\ quota > 0 /\ quota' = quota - 1
    /\ manager' = [m EXCEPT !.last = [n |-> manager.last.n + 1, op |-> op,
                                      outcome |-> outcome, held |-> manager.observer,
                                      pending |-> PendingTasks]]
    /\ UNCHANGED <<store, nextId, loopCaptured, tasks, req, tableExists, rows, call>>

start_call(outcome) == ManagerCall(start(manager, outcome), "start", <<outcome>>)

stop_call(outcome) == ManagerCall(stop(manager, outcome), "stop", <<outcome>>)

restart_call(stop_outcome, start_outcome) ==
    ManagerCall(restart(manager, stop_outcome, start_outcome), "restart",
                <<stop_outcome, start_outcome>>)

(* an observer thread whose stop event is set ends *)
observer_thread_ends(k) ==
    /\ manager.threads[k] = "stopping"
    /\ manager' = [manager EXCEPT !.threads[k] = "dead"]
    /\ UNCHANGED <<store, nextId, loopCaptured, tasks, req, quota, tableExists, rows, call>>

-----------------------------------------------------------------------------
(* core/indexing/index.py *)

(* chunk_text, by the length of the text in units (tokens, or characters in
   the fallback): the offsets range(0, len, chunk_size - overlap) *)
ChunkOffsets(len, chunk_size, overlap) ==
    LET step == chunk_size - overlap
    IN IF len <= 0 THEN {} ELSE {k * step : k \in 0..((len - 1) \div step)}

Min(a, b) == IF a <= b THEN a ELSE b

(* Chunkers that step by the whole window, and by one unit more than
   chunk_size - overlap *)
RECURSIVE chunk_text_no_overlap(_, _, _, _)
chunk_text_no_overlap(text, i, chunk_size, overlap) ==
    IF i >= Len(text) THEN <<>>
    ELSE <<SubSeq(text, i + 1, Min(i + chunk_size, Len(text)))>>
         \o chunk_text_no_overlap(text, i + chunk_size, chunk_size, overlap)

RECURSIVE chunk_text_wide_step(_, _, _, _)
chunk_text_wide_step(text, i, chunk_size, overlap) ==
    IF i >= Len(text) THEN <<>>
    ELSE <<SubSeq(text, i + 1, Min(i + chunk_size, Len(text)))>>
         \o chunk_text_wide_step(text, i + chunk_size - overlap + 1, chunk_size, overlap)

(* chunk_text(text, chunk_size, overlap) from offset i on:
   for i in range(0, len(text), chunk_size - overlap): text[i:i + chunk_size] *)
RECURSIVE chunk_text(_, _, _, _)
chunk_text(text, i, chunk_size, overlap) ==
    IF i >= Len(text) THEN <<>>
    ELSE <<SubSeq(text, i + 1, Min(i + chunk_size, Len(text)))>>
         \o chunk_text(text, i + chunk_size - overlap, chunk_size, overlap)

(* What the environment holds for one index_file call: the file on disk
   (missing, of an extension outside the allow-list, unreadable, or readable
   with len units of text), the embedding provider and LanceDB. A field the
   call never gets to read is held at one value. *)
FileKinds == {"missing", "unsupported", "unreadable", "readable"}
Lengths == {0, 1, CHUNK_SIZE - CHUNK_OVERLAP + 1}
StoreKinds == {"ok", "connect_fails", "add_fails"}
Envs ==
    {env \in [file : FileKinds, len : Lengths, embed_ok : BOOLEAN, lancedb : StoreKinds] :
        /\ env.file # "readable" => env.len = 0
        /\ env.len = 0 => env.embed_ok
        /\ ~env.embed_ok => env.lancedb = "ok"}

(* a readable file of one chunk, with the provider and LanceDB at work; and
   the environments of the calls made directly: a provider or LanceDB that
   fails is drawn with that file only *)
OneChunk == [file |-> "readable", len |-> 1, embed_ok |-> TRUE, lancedb |-> "ok"]

CallEnvs == {env \in Envs : env.len > 1 => (env.embed_ok /\ env.lancedb = "ok")}

(* read_file_content: the length of the content read, or None *)
NoContent == -1
read_file_content(env) ==
    IF env.file = "readable" THEN env.len ELSE NoContent

(* table.add(data): the rows of one file, appended in chunk order *)
RECURSIVE ChunkRows(_, _, _, _)
ChunkRows(file_path, file_id, k, n) ==
    IF k >= n THEN <<>>
    ELSE <<[file_id |-> file_id, file_path |-> file_path, chunk_index |-> k]>>
         \o ChunkRows(file_path, file_id, k + 1, n)

(* An index_file that replaces the rows of the file_id *)
index_file_replacing(file_path, file_id, env, te, rs) ==
    LET content == read_file_content(env)
        chunks == Cardinality(ChunkOffsets(content, CHUNK_SIZE, CHUNK_OVERLAP))
        failed == [ok |-> FALSE, tableExists |-> te, rows |-> rs]
        others == SelectSeq(IF te THEN rs ELSE <<>>, LAMBDA row : row.file_id # file_id)
    IN IF content = NoContent \/ content = 0 \/ chunks = 0 THEN failed
       ELSE IF ~env.embed_ok \/ env.lancedb = "connect_fails" THEN failed
       ELSE IF env.lancedb = "add_fails"
       THEN [ok |-> FALSE, tableExists |-> TRUE, rows |-> IF te THEN rs ELSE <<>>]
       ELSE [ok |-> TRUE, tableExists |-> TRUE,
             rows |-> others \o ChunkRows(file_path, file_id, 0, chunks)]

(* An index_file that has written the rows of a file by the time its store
   call fails *)
index_file_rows_before_failure(file_path, file_id, env, te, rs) ==
    LET content == read_file_content(env)
        chunks == Cardinality(ChunkOffsets(content, CHUNK_SIZE, CHUNK_OVERLAP))
        failed == [ok |-> FALSE, tableExists |-> te, rows |-> rs]
    IN IF content = NoContent \/ content = 0 \/ chunks = 0 THEN failed
       ELSE IF ~env.embed_ok \/ env.lancedb = "connect_fails" THEN failed
       ELSE [ok |-> env.lancedb # "add_fails", tableExists |-> TRUE,
             rows |-> (IF te THEN rs ELSE <<>>) \o ChunkRows(file_path, file_id, 0, chunks)]

(* An index_file that creates the table with mode="overwrite" on every call *)
index_file_recreating(file_path, file_id, env, te, rs) ==
    LET content == read_file_content(env)
        chunks == Cardinality(ChunkOffsets(content, CHUNK_SIZE, CHUNK_OVERLAP))
        failed == [ok |-> FALSE, tableExists |-> te, rows |-> rs]
    IN IF content = NoContent \/ content = 0 \/ chunks = 0 THEN failed
       ELSE IF ~env.embed_ok \/ env.lancedb = "connect_fails" THEN failed
       ELSE IF env.lancedb = "add_fails"
       THEN [ok |-> FALSE, tableExists |-> TRUE, rows |-> <<>>]
       ELSE [ok |-> TRUE, tableExists |-> TRUE,
             rows |-> ChunkRows(file_path, file_id, 0, chunks)]

(* index_file(file_path, file_id) in environment env on the table (te, rs):
   [ok, tableExists, rows] *)
index_file(file_path, file_id, env, te, rs) ==
    LET content == read_file_content(env)
        chunks == Cardinality(ChunkOffsets(content, CHUNK_SIZE, CHUNK_OVERLAP))
        failed == [ok |-> FALSE, tableExists |-> te, rows |-> rs]
    IN IF content = NoContent \/ content = 0 THEN failed
       ELSE IF chunks = 0 THEN failed
       ELSE IF ~env.embed_ok THEN failed
       ELSE IF env.lancedb = "connect_fails" THEN failed
       ELSE LET table == IF te THEN rs ELSE <<>>
            IN IF env.lancedb = "add_fails"
               THEN [ok |-> FALSE, tableExists |-> TRUE, rows |-> table]
               ELSE [ok |-> TRUE, tableExists |-> TRUE,
                     rows |-> table \o ChunkRows(file_path, file_id, 0, chunks)]

(* An iteration that counts a failure and forgets its path *)
index_files_iteration_no_path(st, file_path, ok) ==
    IF ok
    THEN [st EXCEPT !.success_count = st.success_count + 1]
    ELSE [st EXCEPT !.fail_count = st.fail_count + 1]

(* index_files: the counters of its loop, one iteration of the loop on what
   index_file returned, and the dictionary it returns *)
NoCounts == [success_count |-> 0, fail_count |-> 0, failed_files |-> <<>>]

index_files_iteration(st, file_path, ok) ==
    IF ok
    THEN [st EXCEPT !.success_count = st.success_count + 1]
    ELSE [st EXCEPT !.fail_count = st.fail_count + 1,
                    !.failed_files = Append(st.failed_files, file_path)]

index_files_result(file_paths, st) ==
    [total |-> Len(file_paths), success |-> st.success_count,
     failed |-> st.fail_count, failed_files |-> st.failed_files]

NoResult == [total |-> 0, success |-> 0, failed |-> 0, failed_files |-> <<>>]

(* file_ids=None, which no list of ids is, and the ids index_files then makes
   up: str(i) for i in range(len(file_paths)), written -1, -2, ... here, what
   no uuid is *)
NoFileIds == <<None>>

DefaultIds(n) == [k \in 1..n |-> 0 - k]

EffectiveIds(file_paths, file_ids) ==
    IF file_ids = NoFileIds THEN DefaultIds(Len(file_paths)) ELSE file_ids

(* the loop of index_files over zip(file_paths, file_ids), the call of file k
   in environment envs[k]; acc = [st, tableExists, rows, returned] *)
RECURSIVE index_files_loop(_, _, _, _)
index_files_loop(file_paths, file_ids, envs, acc) ==
    IF file_paths = <<>> \/ file_ids = <<>> THEN acc
    ELSE LET r == index_file(Head(file_paths), Head(file_ids), Head(envs),
                             acc.tableExists, acc.rows)
         IN index_files_loop(Tail(file_paths), Tail(file_ids), Tail(envs),
                [st |-> index_files_iteration(acc.st, Head(file_paths), r.ok),
                 tableExists |-> r.tableExists, rows |-> r.rows,
                 returned |-> Append(acc.returned, r.ok)])

(* An index_files that does not compare the lengths: zip stops at the
   shorter list *)
index_files_unchecked(file_paths, file_ids, envs, te, rs) ==
    LET ids == EffectiveIds(file_paths, file_ids)
        acc == index_files_loop(file_paths, ids, envs,
                   [st |-> NoCounts, tableExists |-> te, rows |-> rs, returned |-> <<>>])
    IN [raised |-> "none", result |-> index_files_result(file_paths, acc.st),
        tableExists |-> acc.tableExists, rows |-> acc.rows, returned |-> acc.returned]

(* index_files(file_paths, file_ids) on the table (te, rs): what it raises,
   the dictionary it returns, the table it leaves, and what its index_file
   calls returned, one entry per call made *)
index_files(file_paths, file_ids, envs, te, rs) ==
    LET ids == EffectiveIds(file_paths, file_ids)
        acc == index_files_loop(file_paths, ids, envs,
                   [st |-> NoCounts, tableExists |-> te, rows |-> rs, returned |-> <<>>])
    IN IF Len(file_paths) # Len(ids)
       THEN [raised |-> "ValueError", result |-> NoResult,
             tableExists |-> te, rows |-> rs, returned |-> <<>>]
       ELSE [raised |-> "none", result |-> index_files_result(file_paths, acc.st),
             tableExists |-> acc.tableExists, rows |-> acc.rows, returned |-> acc.returned]

(* What LanceDB does under one delete_file_from_index call *)
DeleteKinds == {"ok", "connect_fails", "delete_fails"}

RECURSIVE RowsNotOf(_, _)
RowsNotOf(rs, file_id) ==
    IF rs = <<>> THEN <<>>
    ELSE (IF Head(rs).file_id = file_id THEN <<>> ELSE <<Head(rs)>>)
         \o RowsNotOf(Tail(rs), file_id)

(* A delete that empties the table *)
delete_file_from_index_all_rows(file_id, env, te, rs) ==
    IF env = "connect_fails" THEN [ok |-> FALSE, rows |-> rs]
    ELSE IF ~te THEN [ok |-> FALSE, rows |-> rs]
    ELSE IF env = "delete_fails" THEN [ok |-> FALSE, rows |-> rs]
    ELSE [ok |-> TRUE, rows |-> <<>>]

(* A delete that stops at the first row it removes *)
RECURSIVE RowsNotFirstOf(_, _)
RowsNotFirstOf(rs, file_id) ==
    IF rs = <<>> THEN <<>>
    ELSE IF Head(rs).file_id = file_id THEN Tail(rs)
    ELSE <<Head(rs)>> \o RowsNotFirstOf(Tail(rs), file_id)

delete_file_from_index_first_row(file_id, env, te, rs) ==
    IF env = "connect_fails" THEN [ok |-> FALSE, rows |-> rs]
    ELSE IF ~te THEN [ok |-> FALSE, rows |-> rs]
    ELSE IF env = "delete_fails" THEN [ok |-> FALSE, rows |-> rs]
    ELSE [ok |-> TRUE, rows |-> RowsNotFirstOf(rs, file_id)]

(* delete_file_from_index(file_id) on the table (te, rs): [ok, rows]; the
   table itself is never dropped *)
delete_file_from_index(file_id, env, te, rs) ==
    IF env = "connect_fails" THEN [ok |-> FALSE, rows |-> rs]
    ELSE IF ~te THEN [ok |-> FALSE, rows |-> rs]
    ELSE IF env = "delete_fails" THEN [ok |-> FALSE, rows |-> rs]
    ELSE [ok |-> TRUE, rows |-> RowsNotOf(rs, file_id)]

(* What the provider and LanceDB do under one search_similar call *)
SearchKinds == {"ok", "embed_fails", "connect_fails", "search_fails"}

Queries == 1..2

(* the distance LanceDB computes between the embedding of a query and the
   vector of a row: some number fixed by the query and the chunk *)
Distance(query, row) == (query * (row.file_id + 2) + row.chunk_index) % 3

(* table.search(query_embedding): the rows by ascending distance *)
RECURSIVE InsertByDistance(_, _, _)
InsertByDistance(query, row, sorted) ==
    IF sorted = <<>> THEN <<row>>
    ELSE IF Distance(query, row) < Distance(query, Head(sorted))
    THEN <<row>> \o sorted
    ELSE <<Head(sorted)>> \o InsertByDistance(query, row, Tail(sorted))

RECURSIVE SearchByDistance(_, _)
SearchByDistance(query, rs) ==
    IF rs = <<>> THEN <<>>
    ELSE InsertByDistance(query, rs[Len(rs)], SearchByDistance(query, SubSeq(rs, 1, Len(rs) - 1)))

(* the dictionaries search_similar makes of the rows found *)
SearchResults(query, found) ==
    [k \in 1..Len(found) |->
        [file_path |-> found[k].file_path, file_id |-> found[k].file_id,
         chunk_index |-> found[k].chunk_index, score |-> Distance(query, found[k])]]

(* A search that drops .limit(limit) *)
search_similar_unlimited(query, limit, env, te, rs) ==
    IF env # "ok" \/ ~te THEN <<>>
    ELSE SearchResults(query, SearchByDistance(query, rs))

(* A search that answers with the rows it has although the search raised *)
search_similar_failure_leaks(query, limit, env, te, rs) ==
    IF env = "embed_fails" THEN <<>>
    ELSE IF env = "connect_fails" THEN <<>>
    ELSE IF ~te THEN <<>>
    ELSE LET sorted == SearchByDistance(query, rs)
         IN SearchResults(query, SubSeq(sorted, 1, Min(limit, Len(sorted))))

(* search_similar(query, limit) on the table (te, rs): the list it returns,
   empty on every exception *)
search_similar(query, limit, env, te, rs) ==
    IF env = "embed_fails" THEN <<>>
    ELSE IF env = "connect_fails" THEN <<>>
    ELSE IF ~te THEN <<>>
    ELSE IF env = "search_fails" THEN <<>>
    ELSE LET sorted == SearchByDistance(query, rs)
         IN SearchResults(query, SubSeq(sorted, 1, Min(limit, Len(sorted))))

-----------------------------------------------------------------------------
(* core/indexing/api.py: run_indexing *)

Range(seq) == {seq[k] : k \in 1..Len(seq)}

RECURSIVE TotalMuts(_)
TotalMuts(ts) == IF ts = <<>> THEN 0 ELSE Head(ts).muts + TotalMuts(Tail(ts))

(* The request record. returned (what each index_file call returned), snap
   (the table when the request arrived), muts0 (the mutating statements the
   watch path had executed by then) and read (the table when index_files
   returned, the files read) are history, read by no action. *)
IdleReq ==
    [pc |-> "idle", paths |-> <<>>, i |-> 0, file_ids |-> <<>>, valid_paths |-> <<>>,
     st |-> NoCounts, result |-> NoResult, http |-> 0,
     returned |-> <<>>, snap |-> <<>>, muts0 |-> 0, read |-> <<>>]

PathSeqs(n) == UNION {[1..k -> Paths] : k \in 0..n}

ReqStep(r) ==
    /\ req' = r
    /\ UNCHANGED <<store, nextId, loopCaptured, tasks, quota, tableExists, rows, call, manager>>

(* The two outcomes exchanged, and every file marked SYNCED *)
OutcomeStatusExchanged(path, result) ==
    IF path \in Range(result.failed_files) THEN "SYNCED" ELSE "ERROR"

OutcomeStatusAlwaysSynced(path, result) == "SYNCED"

(* the status run_indexing writes for a resolved path once index_files has returned *)
OutcomeStatus(path, result) ==
    IF path \in Range(result.failed_files) THEN "ERROR" ELSE "SYNCED"

(* POST /api/indexing/run arrives: no paths is a 400 *)
run_indexing(paths) ==
    /\ req.pc = "idle" /\ quota > 0
    /\ quota' = IF paths = <<>> THEN quota - 1 ELSE quota - Len(paths)
    /\ req' = IF paths = <<>>
              THEN [IdleReq EXCEPT !.pc = "done", !.http = 400]
              ELSE [IdleReq EXCEPT !.pc = "resolve", !.paths = paths, !.i = 1,
                                   !.snap = store, !.muts0 = TotalMuts(tasks)]
    /\ UNCHANGED <<store, nextId, loopCaptured, tasks, tableExists, rows, call, manager>>

(* one iteration of the loop resolving paths to file ids; the exception of
   scalar_one_or_none() is raised outside the try block and ends the request;
   after the last path, no resolved path is a 404 *)
run_indexing_resolve ==
    /\ req.pc = "resolve"
    /\ LET path == req.paths[req.i]
           file_status == get_file_status_by_path(store, path)
           found == IF file_status = None THEN req
                    ELSE [req EXCEPT !.file_ids = Append(req.file_ids, file_status),
                                     !.valid_paths = Append(req.valid_paths, path)]
       IN IF file_status = MultipleResultsFound
          THEN ReqStep([req EXCEPT !.pc = "done", !.http = 500])
          ELSE IF req.i < Len(req.paths)
          THEN ReqStep([found EXCEPT !.i = req.i + 1])
          ELSE IF found.valid_paths = <<>>
          THEN ReqStep([found EXCEPT !.pc = "done", !.http = 404])
          ELSE ReqStep([found EXCEPT !.pc = "index", !.i = 1])

(* An index_files that writes SYNCED for a file as soon as it is indexed *)
index_files_step_marking ==
    /\ req.pc = "index"
    /\ \E env \in Envs :
        LET file_path == req.valid_paths[req.i]
            r == index_file(file_path, req.file_ids[req.i], env, tableExists, rows)
            st == index_files_iteration(req.st, file_path, r.ok)
        IN /\ tableExists' = r.tableExists
           /\ rows' = r.rows
           /\ store' = IF r.ok THEN update_file_status(store, req.file_ids[req.i], "SYNCED")
                       ELSE store
           /\ req' = IF req.i < Len(req.valid_paths)
                     THEN [req EXCEPT !.st = st, !.i = req.i + 1,
                                      !.returned = Append(req.returned, r.ok)]
                     ELSE [req EXCEPT !.st = st, !.i = 1, !.pc = "mark",
                                      !.returned = Append(req.returned, r.ok),
                                      !.result = index_files_result(req.valid_paths, st),
                                      !.read = store]
    /\ UNCHANGED <<nextId, loopCaptured, tasks, quota, call, manager>>

(* result = index_files(valid_paths, file_ids), a synchronous call: one
   iteration of its loop, index_file included; the last one returns the
   dictionary to run_indexing *)
index_files_step ==
    /\ req.pc = "index"
    /\ \E env \in Envs :
        LET file_path == req.valid_paths[req.i]
            r == index_file(file_path, req.file_ids[req.i], env, tableExists, rows)
            st == index_files_iteration(req.st, file_path, r.ok)
        IN /\ tableExists' = r.tableExists
           /\ rows' = r.rows
           /\ req' = IF req.i < Len(req.valid_paths)
                     THEN [req EXCEPT !.st = st, !.i = req.i + 1,
                                      !.returned = Append(req.returned, r.ok)]
                     ELSE [req EXCEPT !.st = st, !.i = 1, !.pc = "mark",
                                      !.returned = Append(req.returned, r.ok),
                                      !.result = index_files_result(req.valid_paths, st),
                                      !.read = store]
    /\ UNCHANGED <<store, nextId, loopCaptured, tasks, quota, call, manager>>

(* one iteration of the loop writing the outcome of each resolved file; the
   request returns 200 after the last *)
run_indexing_mark ==
    /\ req.pc = "mark"
    /\ store' = update_file_status(store, req.file_ids[req.i],
                                   OutcomeStatus(req.valid_paths[req.i], req.result))
    /\ req' = IF req.i < Len(req.valid_paths)
              THEN [req EXCEPT !.i = req.i + 1]
              ELSE [req EXCEPT !.pc = "done", !.http = 200]
    /\ UNCHANGED <<nextId, loopCaptured, tasks, quota, tableExists, rows, call, manager>>

(* an await update_file_status(...) of that loop raises (the database is
   locked or gone): the statement changes nothing and the except branch of
   run_indexing takes over *)
run_indexing_mark_raises ==
    /\ req.pc = "mark"
    /\ ReqStep([req EXCEPT !.pc = "fail", !.i = 1])

(* one iteration of the loop of the except branch, over all file_ids: ERROR
   is written, or the update raises again and is passed over; the request
   answers 500 after the last *)
run_indexing_fail(written) ==
    /\ req.pc = "fail"
    /\ store' = IF written THEN update_file_status(store, req.file_ids[req.i], "ERROR")
                ELSE store
    /\ req' = IF req.i < Len(req.file_ids)
              THEN [req EXCEPT !.i = req.i + 1]
              ELSE [req EXCEPT !.pc = "done", !.http = 500]
    /\ UNCHANGED <<nextId, loopCaptured, tasks, quota, tableExists, rows, call, manager>>

(* the response has been sent *)
run_indexing_respond ==
    /\ req.pc = "done"
    /\ ReqStep(IdleReq)

-----------------------------------------------------------------------------
(* core/indexing/api.py: delete_indexed_file. The request in flight is held
   in call; store0, rows0, tableExists0 (the tables when it arrived), busy0
   (a run_indexing request was in flight then) and quota0 are history. *)

DeletePending == call.op = "delete_indexed_file" /\ call.pc # "done"

(* index_files is a synchronous call: from the last lookup of run_indexing
   to the end of index_files no other coroutine of the loop runs *)
LoopFree == req.pc # "index"

FileIds == DOMAIN store \cup {nextId}

(* success = delete_file_from_index(file_id), a synchronous call; on False
   the HTTPException(404) raised inside the try block is caught by its
   except Exception and answered as 500 *)
delete_indexed_file(file_id, env) ==
    /\ call.op = "delete_indexed_file" => call.pc = "done"
    /\ LoopFree
    /\ quota > 0 /\ quota' = quota - 1
    /\ LET r == delete_file_from_index(file_id, env, tableExists, rows)
       IN /\ rows' = r.rows
          /\ call' = [op |-> "delete_indexed_file", file_id |-> file_id, env |-> env,
                      success |-> r.ok,
                      pc |-> IF r.ok THEN "lookup" ELSE "done",
                      http |-> IF r.ok THEN 0 ELSE 500,
                      store0 |-> store, rows0 |-> rows, tableExists0 |-> tableExists,
                      busy0 |-> req.pc # "idle", quota0 |-> quota - 1]
    /\ UNCHANGED <<store, nextId, loopCaptured, tasks, req, tableExists, manager>>

(* file_status = await get_file_status(db, file_id) *)
delete_indexed_file_lookup ==
    /\ call.op = "delete_indexed_file" /\ call.pc = "lookup"
    /\ LoopFree
    /\ call' = IF get_file_status(store, call.file_id) = None
               THEN [call EXCEPT !.pc = "done", !.http = 200]
               ELSE [call EXCEPT !.pc = "update"]
    /\ UNCHANGED <<store, nextId, loopCaptured, tasks, req, quota, tableExists, rows, manager>>

(* await update_file_status(db, file_id, FileStatusEnum.PENDING), and the
   response {"status": "deleted"} *)
delete_indexed_file_update ==
    /\ call.op = "delete_indexed_file" /\ call.pc = "update"
    /\ LoopFree
    /\ store' = update_file_status(store, call.file_id, "PENDING")
    /\ call' = [call EXCEPT !.pc = "done", !.http = 200]
    /\ UNCHANGED <<nextId, loopCaptured, tasks, req, quota, tableExists, rows, manager>>

-----------------------------------------------------------------------------
(* core/indexing/index.py called directly, one call at a time *)

NoRequest == req.pc = "idle" /\ ~DeletePending

Cost(file_paths) == IF file_paths = <<>> THEN 1 ELSE Len(file_paths)

(* the lists of at most n paths that have a record *)
TrackedPathSeqs(n) ==
    {file_paths \in PathSeqs(n) :
        \A k \in 1..Len(file_paths) : IdsAtPath(store, file_paths[k]) # {}}

(* the ids of the records of the paths, in order *)
IdsOf(file_paths) ==
    [k \in 1..Len(file_paths) |-> get_file_status_by_path(store, file_paths[k])]

(* the lists of ids a caller passes with file_paths: the ids of its records,
   that list one short or one long, or none *)
FileIdLists(file_paths) ==
    LET ids == IdsOf(file_paths)
    IN {ids, NoFileIds, Append(ids, nextId)}
       \cup (IF ids = <<>> THEN {} ELSE {SubSeq(ids, 1, Len(ids) - 1)})

index_files_call(file_paths, file_ids, envs) ==
    /\ NoRequest /\ quota >= Cost(file_paths)
    /\ quota' = quota - Cost(file_paths)
    /\ LET out == index_files(file_paths, file_ids, envs, tableExists, rows)
       IN /\ tableExists' = out.tableExists
          /\ rows' = out.rows
          /\ call' = [op |-> "index_files", file_paths |-> file_paths,
                      file_ids |-> file_ids, envs |-> envs, out |-> out,
                      tableExists0 |-> tableExists, rows0 |-> rows]
    /\ UNCHANGED <<store, nextId, loopCaptured, tasks, req, manager>>

delete_file_from_index_call(file_id, env) ==
    /\ NoRequest /\ quota > 0
    /\ quota' = quota - 1
    /\ LET r == delete_file_from_index(file_id, env, tableExists, rows)
       IN /\ rows' = r.rows
          /\ call' = [op |-> "delete_file_from_index", file_id |-> file_id, env |-> env,
                      ok |-> r.ok, rows |-> r.rows,
                      tableExists0 |-> tableExists, rows0 |-> rows]
    /\ UNCHANGED <<store, nextId, loopCaptured, tasks, req, tableExists, manager>>

search_similar_call(query, limit, env) ==
    /\ NoRequest /\ quota > 0
    /\ quota' = quota - 1
    /\ call' = [op |-> "search_similar", query |-> query, limit |-> limit, env |-> env,
                results |-> search_similar(query, limit, env, tableExists, rows),
                tableExists0 |-> tableExists, rows0 |-> rows]
    /\ UNCHANGED <<store, nextId, loopCaptured, tasks, req, tableExists, rows, manager>>

(* chunk_text called on the text it was handed *)
chunk_text_call ==
    /\ call.op = "chunk_text" /\ call.pc = "called"
    /\ call' = [call EXCEPT !.pc = "returned",
                            !.chunks = chunk_text(call.text, 0, call.chunk_size, call.overlap)]
    /\ UNCHANGED <<store, nextId, loopCaptured, tasks, req, quota, tableExists, rows, manager>>

-----------------------------------------------------------------------------
(* Nothing is in flight, nothing has been called and the index is empty. *)
NoCall == [op |-> "none"]

Start ==
    /\ tasks = <<>>
    /\ req = IdleReq
    /\ tableExists = FALSE
    /\ rows = <<>>
    /\ call = NoCall

(* The table file_status as earlier created notifications left it (init_db
   creates the table if absent and keeps its rows): one PENDING row for each
   path of ps, ids in the order of creation. *)
RECURSIVE CreatedRows(_, _)
CreatedRows(ps, id) ==
    IF ps = <<>> THEN <<>>
    ELSE create_file_status(CreatedRows(Tail(ps), id + 1),
                            [id |-> id, name |-> Basename(Head(ps)), path |-> Head(ps),
                             status |-> "PENDING"])

TrackedSeqs == {<<>>, <<<<"notes", "a.md">>>>, <<<<"notes", "a.md">>, <<"notes", "b.md">>>>,
                <<<<"notes", "a.md">>, <<"notes", "b.md">>, <<"daily", "a.md">>>>}

(* The service (main.py): the lifespan coroutine constructs the handler, so
   get_running_loop() succeeds and the loop is captured. *)
Init ==
    /\ Start
    /\ \E ps \in TrackedSeqs : store = CreatedRows(ps, 1) /\ nextId = Len(ps) + 1
    /\ loopCaptured = TRUE
    /\ manager = Watching
    /\ quota = MaxInputs

(* The watcher alone on a new database: a handler constructed with or without
   a running loop (handler.py run as a script constructs it without), and no
   request. *)
InitWatch ==
    /\ Start
    /\ store = <<>> /\ nextId = 1
    /\ loopCaptured \in BOOLEAN
    /\ manager = Watching
    /\ quota = MaxEvents

(* Two files are tracked and the watcher is not running. *)
Tracked ==
    /\ Start
    /\ store = CreatedRows(<<<<"notes", "a.md">>, <<"notes", "b.md">>>>, 1) /\ nextId = 3
    /\ loopCaptured = TRUE
    /\ manager = NoManager

(* The indexing module alone, called directly, the table that of a new
   installation or as an earlier index_files call for one file left it. *)
InitIndex ==
    /\ tasks = <<>> /\ req = IdleReq /\ call = NoCall /\ manager = NoManager
    /\ store = CreatedRows(<<<<"notes", "a.md">>, <<"notes", "b.md">>>>, 1) /\ nextId = 3
    /\ loopCaptured = TRUE
    /\ \E file_paths \in {<<>>, <<<<"notes", "b.md">>>>} :
         LET out == index_files(file_paths, IdsOf(file_paths),
                                [k \in 1..Len(file_paths) |-> OneChunk], FALSE, <<>>)
         IN tableExists = out.tableExists /\ rows = out.rows
    /\ quota = MaxCalls

(* chunk_text alone: a text of at most MaxLen units over two characters, a
   window of at most MaxWindow units and an overlap smaller than the window *)
Chars == {"x", "y"}

Texts == UNION {[1..n -> Chars] : n \in 0..MaxLen}

InitChunk ==
    /\ tasks = <<>> /\ req = IdleReq /\ tableExists = FALSE /\ rows = <<>>
    /\ manager = NoManager
    /\ store = <<>> /\ nextId = 1 /\ loopCaptured = FALSE /\ quota = 0
    /\ \E text \in Texts : \E chunk_size \in 1..MaxWindow : \E overlap \in 0..(chunk_size - 1) :
         call = [op |-> "chunk_text", pc |-> "called", text |-> text,
                 chunk_size |-> chunk_size, overlap |-> overlap, chunks |-> <<>>]

(* The watch subsystem as main.py builds it: one tracked file, a manager that
   has not been started, a handler constructed on the loop thread. *)
InitManager ==
    /\ Start
    /\ store = CreatedRows(<<<<"notes", "a.md">>>>, 1) /\ nextId = 2
    /\ loopCaptured = TRUE
    /\ manager = NoManager
    /\ quota = MaxOps

(* The endpoints of core/indexing/api.py alone. *)
InitApi == Tracked /\ quota = MaxRequests

NextWatch ==
    \/ \E src \in Paths : on_created(src)
    \/ \E src \in Paths : on_modified(src)
    \/ \E src \in Paths : on_deleted(src)
    \/ \E src \in Paths : \E dest \in Paths \ {src} : on_moved(src, dest)
    \/ on_directory_event
    \/ \E i \in 1..Len(tasks) : create_file_status_async(i)
    \/ \E i \in 1..Len(tasks) : lookup_by_path_async(i)
    \/ \E i \in 1..Len(tasks) : update_file_status_async(i)
    \/ \E i \in 1..Len(tasks) : delete_file_status_async(i)
    \/ \E i \in 1..Len(tasks) : rename_file_status_async(i)

NextApi ==
    \/ \E paths \in PathSeqs(quota) : run_indexing(paths)
    \/ run_indexing_resolve
    \/ index_files_step
    \/ run_indexing_mark
    \/ run_indexing_mark_raises
    \/ \E written \in BOOLEAN : run_indexing_fail(written)
    \/ run_indexing_respond

NextIndex ==
    \/ \E file_paths \in TrackedPathSeqs(quota) :
         \E file_ids \in FileIdLists(file_paths) :
           \E envs \in [1..Len(file_paths) -> CallEnvs] :
             index_files_call(file_paths, file_ids, envs)
    \/ \E file_id \in FileIds : \E env \in DeleteKinds :
         delete_file_from_index_call(file_id, env)
    \/ \E query \in Queries : \E limit \in 1..MaxLimit : \E env \in SearchKinds :
         search_similar_call(query, limit, env)

NextManager ==
    \/ \E outcome \in StartOutcomes : start_call(outcome)
    \/ \E outcome \in StopOutcomes : stop_call(outcome)
    \/ \E stop_outcome \in StopOutcomes : \E start_outcome \in StartOutcomes :
         restart_call(stop_outcome, start_outcome)
    \/ \E k \in 1..Len(manager.threads) : observer_thread_ends(k)
    \/ NextWatch

(* the two endpoints that write: trigger indexing and remove from index *)
NextRequests ==
    \/ NextApi
    \/ \E file_id \in FileIds : \E env \in DeleteKinds : delete_indexed_file(file_id, env)
    \/ delete_indexed_file_lookup
    \/ delete_indexed_file_update

Next == NextWatch \/ NextApi

Spec == Init /\ [][Next]_vars

SpecWatch == InitWatch /\ [][NextWatch]_vars

SpecIndex == InitIndex /\ [][NextIndex]_vars

SpecApi == InitApi /\ [][NextRequests]_vars

SpecChunk == InitChunk /\ [][chunk_text_call]_vars

SpecManager == InitManager /\ [][NextManager]_vars

-----------------------------------------------------------------------------
(* Shorthands of the properties *)

TaskIds == 1..Len(tasks)

LiveIdsAtPath(s, path) == {id \in IdsAtPath(s, path) : s[id].status # "DELETED"}

(* the coroutine of notification i takes a step *)
Steps(i) == i \in TaskIds /\ tasks'[i] # tasks[i]

(* What a notification does to the table when its coroutine runs alone *)
ApplyAlone(s, t) ==
    LET existing == get_file_status_by_path(s, t.src)
    IN CASE t.kind = "created" ->
              create_file_status(s, [id |-> t.id, name |-> Basename(t.src),
                                     path |-> t.src, status |-> "PENDING"])
         [] t.kind = "modified" ->
              IF existing \in {None, MultipleResultsFound} THEN s
              ELSE update_file_status(s, existing, "MODIFIED")
         [] t.kind = "deleted" ->
              IF existing \in {None, MultipleResultsFound} THEN s
              ELSE delete_file_status(s, existing)
         [] OTHER -> rename_file_status(s, t.src, t.dest)

(* ... and what the notifications ts do, one after the other, to an empty table *)
RECURSIVE ApplyInOrder(_, _)
ApplyInOrder(ts, k) ==
    IF k = 0 THEN <<>> ELSE ApplyAlone(ApplyInOrder(ts, k - 1), ts[k])

RowsAtPath(s, path) == {<<id, s[id]>> : id \in IdsAtPath(s, path)}

Moved(path) == \E i \in TaskIds : tasks[i].kind = "moved" /\ path \in {tasks[i].src, tasks[i].dest}

AllDone == \A i \in TaskIds : tasks[i].pc = "done"

-----------------------------------------------------------------------------
(* C1: after any sequence of watch notifications, the table holds at most one
   live (non-DELETED) row per path. *)
C1_OneLiveRecordPerPath ==
    \A path \in Paths : Cardinality(LiveIdsAtPath(store, path)) <= 1

(* C2: the delete of a file-removed notification sets the row's status to
   DELETED, and no step of the watch path removes a row: the set of ids never
   shrinks. *)
C2_WatchPathNeverRemoves ==
    [][/\ DOMAIN store \subseteq DOMAIN store'
       /\ \A i \in TaskIds :
            (tasks[i].kind = "deleted" /\ tasks[i].pc = "looked" /\ tasks'[i].pc = "done"
             /\ tasks[i].existing \in DOMAIN store)
            => /\ tasks[i].existing \in DOMAIN store'
               /\ store'[tasks[i].existing].status = "DELETED"]_vars

(* C3: notifications on one path take effect in the order of their delivery:
   once every coroutine has finished, the rows of a path (one that no move
   names) are those the notifications leave when applied one after the other. *)
C3_PerPathOrderPreserved ==
    AllDone =>
        \A path \in Paths :
            ~Moved(path) =>
                RowsAtPath(store, path) = RowsAtPath(ApplyInOrder(tasks, Len(tasks)), path)

(* C4: between the lookup by path of a notification's coroutine and its
   update or delete, no other coroutine takes a store step on the row found:
   none looks it up, changes it or removes it. *)
C4_LookupAndWriteNotInterleaved ==
    [][\A i \in TaskIds : \A j \in TaskIds \ {i} :
          (tasks[i].pc = "looked" /\ Steps(j))
          => LET row == tasks[i].existing
             IN /\ ~(tasks[j].pc = "start" /\ tasks'[j].existing = row)
                /\ row \in DOMAIN store => (row \in DOMAIN store' /\ store'[row] = store[row])]_vars

(* C5 as stated: every finished coroutine of a non-directory notification has
   executed exactly one mutating statement. *)
C5_ExactlyOneMutation ==
    \A i \in TaskIds : tasks[i].pc = "done" => tasks[i].muts = 1

(* C5 as amended: a notification never executes more than one mutating
   statement; a created or moved one executes exactly one, a modified or
   deleted one executes one if its lookup by path returned a row and none
   otherwise. *)
C5_AtMostOneMutation ==
    \A i \in TaskIds :
        /\ tasks[i].muts <= 1
        /\ tasks[i].pc = "done" =>
            IF tasks[i].kind \in {"created", "moved"}
            THEN tasks[i].muts = 1
            ELSE tasks[i].muts = 1 <=> tasks[i].existing \notin {None, MultipleResultsFound}

C5_Witness ==
    \E i, j, k \in TaskIds :
        /\ tasks[i].kind = "created" /\ tasks[i].pc = "done" /\ tasks[i].muts = 1
        /\ tasks[j].kind = "modified" /\ tasks[j].pc = "done" /\ tasks[j].muts = 1
        /\ tasks[k].kind = "modified" /\ tasks[k].pc = "done" /\ tasks[k].muts = 0

(* C6: with no loop captured the coroutine of a notification runs on the
   watcher thread and has finished before the next notification is delivered
   (only the last notification can be unfinished, none is dropped); with a
   loop captured every coroutine is handed to the loop, none runs on the
   watcher thread. *)
C6_HandoffOrSynchronous ==
    \A i \in TaskIds :
        IF loopCaptured
        THEN tasks[i].exec = "loop"
        ELSE /\ tasks[i].exec = "watcher"
             /\ Pending(tasks[i]) => i = Len(tasks)

C6_Witness ==
    /\ ~loopCaptured
    /\ Len(tasks) = 3
    /\ tasks[1].pc = "done" /\ tasks[1].muts = 1
    /\ tasks[2].pc = "done" /\ tasks[2].muts = 1
    /\ tasks[3].pc = "looked"

(* C7: the rename of a moved notification changes path and name of the row at
   the old path, keeps its id and status, removes and adds no row; afterwards
   the lookup by the old path returns nothing and the lookup by the new path
   returns that row. *)
C7_RenameKeepsIdentity ==
    [][\A i \in TaskIds :
          (tasks[i].kind = "moved" /\ tasks[i].pc = "start" /\ tasks'[i].pc = "done")
          => /\ DOMAIN store' = DOMAIN store
             /\ \A id \in IdsAtPath(store, tasks[i].src) :
                    /\ store'[id].path = tasks[i].dest
                    /\ store'[id].name = Basename(tasks[i].dest)
                    /\ store'[id].status = store[id].status
                    /\ get_file_status_by_path(store', tasks[i].src) = None
                    /\ get_file_status_by_path(store', tasks[i].dest) = id]_vars

(* the step of run_indexing that writes the outcome of the file of id, an
   outcome of success: no index_file call for its path returned False *)
MarksSuccess(id) ==
    /\ req.pc = "mark" /\ req'.pc \in {"mark", "done"}
    /\ req.file_ids[req.i] = id
    /\ \A k \in 1..Len(req.valid_paths) :
           req.valid_paths[k] = req.valid_paths[req.i] => req.returned[k]

BecomesSynced(id) ==
    /\ id \in DOMAIN store /\ id \in DOMAIN store'
    /\ store[id].status # "SYNCED" /\ store'[id].status = "SYNCED"

(* C8 as stated: a status changes to SYNCED only by the outcome of a
   successful indexing run, and only from PENDING or MODIFIED. *)
C8_SyncedOnlyFromPendingOrModified ==
    [][\A id \in DOMAIN store :
          BecomesSynced(id) => MarksSuccess(id) /\ store[id].status \in {"PENDING", "MODIFIED"}]_vars

(* C8 as amended: a status changes to SYNCED only by the outcome of a
   successful indexing run, from PENDING, MODIFIED or ERROR. *)
C8_SyncedOnlyBySuccessfulRun ==
    [][\A id \in DOMAIN store :
          BecomesSynced(id)
          => MarksSuccess(id) /\ store[id].status \in {"PENDING", "MODIFIED", "ERROR"}]_vars

C8_Witness ==
    /\ req.pc = "done" /\ req.http = 200
    /\ \E k \in 1..Len(req.file_ids) :
         /\ req.returned[k]
         /\ req.file_ids[k] \in DOMAIN store
         /\ store[req.file_ids[k]].status = "SYNCED"
         /\ req.snap[req.file_ids[k]].status = "PENDING"

(* what C9 says of the table when a request has completed *)
Completed == req.pc = "done" /\ req.http = 200

OutcomesWritten ==
    /\ \A k \in 1..Len(req.file_ids) :
         /\ req.file_ids[k] \in DOMAIN store
         /\ store[req.file_ids[k]].status =
                IF req.valid_paths[k] \in Range(req.result.failed_files)
                THEN "ERROR" ELSE "SYNCED"
    /\ \A id \in DOMAIN req.snap \ Range(req.file_ids) :
         id \in DOMAIN store /\ store[id] = req.snap[id]

(* no coroutine of the watch path has executed a mutating statement since the
   request arrived *)
Undisturbed == TotalMuts(tasks) = req.muts0

(* C9 as stated: when a trigger-indexing request has completed, every
   resolved file id has status ERROR if its path is in failed_files and
   SYNCED otherwise, and every other row is as it was. *)
C9_OutcomesAtCompletion == Completed => OutcomesWritten

(* C9 as amended: the same, of a request during which the watch path has
   written nothing to the table. *)
C9_OutcomesAtCompletionUndisturbed ==
    (Completed /\ Undisturbed) => (OutcomesWritten /\ DOMAIN store = DOMAIN req.snap)

C9_Witness ==
    /\ Completed /\ Undisturbed
    /\ \E k, l \in 1..Len(req.file_ids) :
         /\ store[req.file_ids[k]].status = "ERROR"
         /\ store[req.file_ids[l]].status = "SYNCED"
    /\ \E id \in DOMAIN store \ Range(req.file_ids) : store[id].status = "PENDING"

(* the paths, in input order, whose index_file call returned False *)
RECURSIVE FailedPaths(_, _)
FailedPaths(paths, returned) ==
    IF paths = <<>> THEN <<>>
    ELSE (IF Head(returned) THEN <<>> ELSE <<Head(paths)>>)
         \o FailedPaths(Tail(paths), Tail(returned))

(* C10: the dictionary index_files returns has total = len(paths),
   success + failed = total, failed = len(failed_files), and failed_files is
   the paths, in input order, whose index_file call returned False. *)
C10_IndexFilesResult ==
    req.pc = "mark" =>
        /\ req.result.total = Len(req.valid_paths)
        /\ req.result.success + req.result.failed = req.result.total
        /\ req.result.failed = Len(req.result.failed_files)
        /\ req.result.failed_files = FailedPaths(req.valid_paths, req.returned)

C10_Witness ==
    /\ req.pc = "mark"
    /\ req.result.total = 2 /\ req.result.success = 1 /\ req.result.failed = 1

RemoveAt(seq, i) == SubSeq(seq, 1, i - 1) \o SubSeq(seq, i + 1, Len(seq))

(* index_files has returned from a call with as many ids as paths *)
Returned == call.op = "index_files" /\ call.out.raised = "none"

CallIds == EffectiveIds(call.file_paths, call.file_ids)

(* the same call without its file i *)
Without(i) ==
    index_files(RemoveAt(call.file_paths, i), RemoveAt(CallIds, i),
                RemoveAt(call.envs, i), call.tableExists0, call.rows0)

(* C11: in one index_files batch every file is processed whatever happens to
   the others (the batch is never aborted); a file whose index_file call
   fails is the only one recorded as failed because of it and leaves no row,
   and the rows and the outcome of every other file are those of the batch
   without it. *)
C11_FailureIsolated ==
    Returned =>
        /\ Len(call.out.returned) = Len(call.file_paths)
        /\ \A i \in 1..Len(call.file_paths) :
             ~call.out.returned[i] =>
                /\ Without(i).rows = call.out.rows
                /\ Without(i).returned = RemoveAt(call.out.returned, i)
                /\ \A path \in Range(call.file_paths) \ {call.file_paths[i]} :
                      path \in Range(call.out.result.failed_files)
                      <=> path \in Range(Without(i).result.failed_files)

C11_Witness ==
    /\ Returned
    /\ Len(call.file_paths) = 2
    /\ ~call.envs[1].embed_ok /\ ~call.out.returned[1]
    /\ call.out.returned[2]
    /\ call.out.result.failed_files = <<call.file_paths[1]>>
    /\ Len(call.out.rows) = 2

(* C12: index_files called with lists of paths and ids of different lengths
   raises ValueError before it calls index_file at all (no file is read, no
   embedding is requested) and leaves the vector table as it was. *)
C12_LengthMismatchRejected ==
    (call.op = "index_files" /\ Len(call.file_paths) # Len(CallIds)) =>
        /\ call.out.raised = "ValueError"
        /\ call.out.returned = <<>>
        /\ call.out.rows = call.rows0
        /\ call.out.tableExists = call.tableExists0

C12_Witness ==
    /\ call.op = "index_files"
    /\ Len(call.file_paths) = 1 /\ Len(call.file_ids) = 2
    /\ index_file(call.file_paths[1], call.file_ids[1], call.envs[1],
                  call.tableExists0, call.rows0).ok
    /\ call.out.raised = "ValueError"
    /\ call.rows0 # <<>>

(* the files read_file_content returns None for without trying to read *)
Skipped == {"missing", "unsupported"}

(* C13: in an indexing run a file that no longer exists, or whose extension
   is outside the allow-list, is skipped: it leaves no row and is not
   recorded as failed (so run_indexing does not write ERROR for it), whereas
   a file that cannot be read is recorded as failed. *)
C13_SkippedNotFailed ==
    Returned =>
        /\ call.out.result.failed =
              Cardinality({k \in 1..Len(call.file_paths) :
                              ~call.out.returned[k] /\ call.envs[k].file \notin Skipped})
        /\ \A k \in 1..Len(call.file_paths) :
              /\ call.envs[k].file \in Skipped =>
                    \/ call.file_paths[k] \notin Range(call.out.result.failed_files)
                    \/ \E l \in 1..Len(call.file_paths) :
                          /\ call.file_paths[l] = call.file_paths[k]
                          /\ call.envs[l].file \notin Skipped
                          /\ ~call.out.returned[l]
              /\ call.envs[k].file = "unreadable" =>
                    call.file_paths[k] \in Range(call.out.result.failed_files)

RowsOf(rs, file_id) == {k \in 1..Len(rs) : rs[k].file_id = file_id}

(* the step on which a remove-from-index request answers with status *)
Answers(status) ==
    /\ call' # call
    /\ call'.op = "delete_indexed_file" /\ call'.pc = "done" /\ call'.http = status

Removed ==
    /\ RowsOf(rows', call'.file_id) = {}
    /\ call'.file_id \in DOMAIN store' => store'[call'.file_id].status = "PENDING"

(* no trigger-indexing request was in flight when the remove request arrived
   and none has arrived since *)
Alone == ~call.busy0 /\ quota = call.quota0

(* C14 as stated: when a remove-from-index request for file_id answers
   "deleted", no row of the vector table has that file_id and the status
   record of that id, if there is one, is PENDING. *)
C14_RemovedAndPending == [][Answers(200) => Removed]_vars

(* C14 as amended: the same, of a remove request during which no
   trigger-indexing request was in flight. *)
C14_RemovedAndPendingAlone == [][(Answers(200) /\ Alone') => Removed]_vars

C14_Witness ==
    /\ call.op = "delete_indexed_file" /\ call.pc = "done" /\ call.http = 200
    /\ Alone
    /\ call.file_id \in DOMAIN call.store0
    /\ call.store0[call.file_id].status = "SYNCED"
    /\ Cardinality(RowsOf(call.rows0, call.file_id)) = 2
    /\ RowsOf(rows, call.file_id) = {}
    /\ store[call.file_id].status = "PENDING"

C14_WitnessError ==
    /\ call.op = "delete_indexed_file" /\ call.pc = "done" /\ call.http = 200
    /\ Alone
    /\ call.file_id \in DOMAIN call.store0
    /\ call.store0[call.file_id].status = "ERROR"
    /\ store[call.file_id].status = "PENDING"

(* C15: a remove-from-index request for a file_id that has no row in the
   vector table (never indexed, or already removed) answers not-found (404)
   and changes no status record; so of two removes of an indexed file the
   second answers not-found. *)
C15_RemoveOfAbsentIsNotFound ==
    [][\A status \in {200, 404, 500} :
          (Answers(status) /\ Alone' /\ call'.env = "ok"
           /\ RowsOf(call'.rows0, call'.file_id) = {})
          => (status = 404 /\ store' = call'.store0)]_vars

DeleteReturned == call.op = "delete_file_from_index"

OtherFile(row) == row.file_id # call.file_id

(* what delete_file_from_index does to the rows: on True the rows left are
   the rows of the other files, as they were and in their order; on False
   the rows are as they were *)
RowsAsClaimed ==
    /\ call.ok => call.rows = SelectSeq(call.rows0, OtherFile)
    /\ ~call.ok => call.rows = call.rows0

(* C16 as stated: delete_file_from_index(file_id) removes every row of that
   file_id and leaves every other row unchanged; it returns True exactly
   when the table existed, and False with the table unchanged when it did
   not. *)
C16_TrueIffTableExisted ==
    DeleteReturned => (RowsAsClaimed /\ (call.ok <=> call.tableExists0))

(* C16 as amended: the same, but it returns True exactly when the table
   existed and no LanceDB call raised; when one raises it returns False with
   the table unchanged. *)
C16_TrueIffTableExistedAndNoError ==
    DeleteReturned =>
        (RowsAsClaimed /\ (call.ok <=> (call.tableExists0 /\ call.env = "ok")))

C16_Witness ==
    /\ DeleteReturned /\ call.ok
    /\ RowsOf(call.rows0, call.file_id) # {}
    /\ call.rows # <<>>
    /\ Len(call.rows) < Len(call.rows0)

C16_WitnessNoMatch ==
    /\ DeleteReturned /\ call.ok
    /\ call.rows0 # <<>>
    /\ call.rows = call.rows0

(* the number of rows of rs of file_id and chunk_index c *)
Copies(rs, file_id, c) ==
    Cardinality({k \in 1..Len(rs) : rs[k].file_id = file_id /\ rs[k].chunk_index = c})

(* the number of chunks of the file of an environment *)
ChunkCount(env) ==
    (env.len + (CHUNK_SIZE - CHUNK_OVERLAP) - 1) \div (CHUNK_SIZE - CHUNK_OVERLAP)

(* one index_files call that indexes the same path and file_id twice, the
   content unchanged, both times with success, on a table with no row of the
   file_id *)
IndexedTwice ==
    /\ Returned
    /\ Len(call.file_paths) = 2
    /\ call.file_paths[1] = call.file_paths[2]
    /\ CallIds[1] = CallIds[2]
    /\ call.envs[1] = call.envs[2]
    /\ call.out.returned = <<TRUE, TRUE>>
    /\ RowsOf(call.rows0, CallIds[1]) = {}

(* C17: indexing appends and never deduplicates: every successful index_file
   call adds one row for each chunk of its file to the rows already there,
   so the same path and file_id indexed twice with unchanged content leaves
   exactly 2n rows of the file_id, each chunk_index 0..n-1 twice. *)
C17_AppendsWithoutDedup ==
    /\ Returned =>
          \A file_id \in Range(CallIds) : \A c \in 0..2 :
             Copies(call.out.rows, file_id, c) =
                Copies(call.rows0, file_id, c) +
                Cardinality({k \in 1..Len(call.file_paths) :
                                /\ CallIds[k] = file_id /\ call.out.returned[k]
                                /\ c < ChunkCount(call.envs[k])})
    /\ IndexedTwice =>
          LET n == ChunkCount(call.envs[1])
          IN /\ Cardinality(RowsOf(call.out.rows, CallIds[1])) = 2 * n
             /\ \A c \in 0..(n - 1) : Copies(call.out.rows, CallIds[1], c) = 2

C17_Witness ==
    /\ IndexedTwice
    /\ ChunkCount(call.envs[1]) = 2
    /\ Cardinality(RowsOf(call.out.rows, CallIds[1])) = 4

ChunksReturned == call.op = "chunk_text" /\ call.pc = "returned"

Step == call.chunk_size - call.overlap

(* C18: on a text of L >= 1 units with window N and overlap M, 0 <= M < N,
   chunk_text returns ceil(L / (N - M)) chunks, each of at least 1 and at
   most N units, chunk i the slice of the text that starts at offset
   i * (N - M). *)
C18_ChunkCountAndSlices ==
    (ChunksReturned /\ Len(call.text) >= 1) =>
        /\ Len(call.chunks) = (Len(call.text) + Step - 1) \div Step
        /\ \A i \in 0..(Len(call.chunks) - 1) :
             /\ Len(call.chunks[i + 1]) >= 1
             /\ Len(call.chunks[i + 1]) <= call.chunk_size
             /\ call.chunks[i + 1] =
                   SubSeq(call.text, i * Step + 1,
                          Min(i * Step + call.chunk_size, Len(call.text)))

C18_Witness ==
    /\ ChunksReturned
    /\ Len(call.text) = 5 /\ call.chunk_size = 4 /\ call.overlap = 2
    /\ Len(call.chunks) = 3
    /\ Len(call.chunks[1]) = 4 /\ Len(call.chunks[3]) = 1

(* the last n units of a chunk, and the first n *)
LastOf(chunk, n) == SubSeq(chunk, Len(chunk) - n + 1, Len(chunk))

FirstOf(chunk, n) == SubSeq(chunk, 1, n)

(* C19 as stated: every two consecutive chunks, the final pair included,
   overlap by exactly M units: the last M units of chunk i are the first M
   units of chunk i+1. *)
C19_EveryPairOverlapsByM ==
    ChunksReturned =>
        \A i \in 1..(Len(call.chunks) - 1) :
            /\ Len(call.chunks[i]) >= call.overlap
            /\ Len(call.chunks[i + 1]) >= call.overlap
            /\ LastOf(call.chunks[i], call.overlap) = FirstOf(call.chunks[i + 1], call.overlap)

(* C19 as amended: two consecutive chunks overlap by exactly M units when
   the later one has at least M units, which it has when the earlier one has
   the full N; a later chunk of fewer than M units (the final one, or the
   final ones) is the tail of the earlier chunk, so they overlap by the
   whole of it. *)
C19_PairsOverlapByMOrTail ==
    ChunksReturned =>
        \A i \in 1..(Len(call.chunks) - 1) :
            LET m == Len(call.chunks[i + 1])
            IN /\ (m >= call.overlap) <=> (Len(call.chunks[i]) = call.chunk_size)
               /\ m >= call.overlap =>
                     LastOf(call.chunks[i], call.overlap)
                        = FirstOf(call.chunks[i + 1], call.overlap)
               /\ m < call.overlap => LastOf(call.chunks[i], m) = call.chunks[i + 1]

C19_Witness ==
    /\ ChunksReturned
    /\ call.text = <<"x", "y", "y", "x", "y">> /\ call.chunk_size = 4 /\ call.overlap = 2
    /\ call.chunks = << <<"x", "y", "y", "x">>, <<"y", "x", "y">>, <<"y">> >>

Searched == call.op = "search_similar"

(* C20: search_similar(query, limit=k) returns at most k results, in
   non-decreasing order of score (distance), and the empty list when the
   table does not exist. *)
C20_AtMostKAscending ==
    Searched =>
        /\ Len(call.results) <= call.limit
        /\ \A i \in 1..(Len(call.results) - 1) :
              call.results[i].score <= call.results[i + 1].score
        /\ ~call.tableExists0 => call.results = <<>>

C20_Witness ==
    /\ Searched
    /\ Len(call.rows0) = 3 /\ call.limit = 2
    /\ Len(call.results) = 2
    /\ call.results[1].score < call.results[2].score
    /\ call.results[1].file_id # call.rows0[1].file_id

C20_WitnessNoTable ==
    /\ Searched /\ call.env = "ok" /\ ~call.tableExists0 /\ call.results = <<>>


(* the step is a call of search_similar *)
SearchStep == call'.op = "search_similar" /\ quota' # quota

(* C23: a failure inside search_similar (the embedding of the query, the
   connection to the store, the search) does not reach the caller: the call
   returns the empty list, and the vector store and the status store are as
   they were. *)
C23_SearchFailureIsEmpty ==
    [][SearchStep =>
          /\ call'.env # "ok" => call'.results = <<>>
          /\ tableExists' = tableExists /\ rows' = rows
          /\ store' = store]_vars

C23_Witness ==
    /\ Searched /\ call.env = "search_fails"
    /\ call.tableExists0 /\ Len(call.rows0) = 3
    /\ call.results = <<>>
    /\ rows = call.rows0 /\ tableExists


IsPrefix(s, t) == Len(s) <= Len(t) /\ SubSeq(t, 1, Len(s)) = s

(* C25: index_file creates the table only when it is absent, and a table
   that exists is never dropped or overwritten: after an index_files call the
   table still exists if it did, every row it held before the call is still
   there, in place, and what the call added are rows of the file ids it was
   handed. *)
C25_CreateIfAbsent ==
    Returned =>
        /\ call.tableExists0 => call.out.tableExists
        /\ IsPrefix(call.rows0, call.out.rows)
        /\ \A k \in (Len(call.rows0) + 1)..Len(call.out.rows) :
              call.out.rows[k].file_id \in Range(CallIds)
        /\ (call.out.tableExists /\ ~call.tableExists0) =>
              \E k \in 1..Len(call.out.returned) :
                  call.envs[k].file = "readable" /\ call.envs[k].len > 0
                  /\ call.envs[k].embed_ok /\ call.envs[k].lancedb # "connect_fails"

C25_Witness ==
    /\ Returned /\ call.tableExists0
    /\ Len(call.rows0) = 1
    /\ Len(call.out.rows) = 3
    /\ call.out.rows[1] = call.rows0[1]
    /\ call.out.rows[2].file_id # call.rows0[1].file_id

C25_WitnessCreated ==
    /\ Returned /\ ~call.tableExists0 /\ call.out.tableExists
    /\ call.out.rows = <<>>


(* the request in flight takes a step *)
RequestStep == req' # req

(* C24: the indexing pipeline never writes the status store: while
   index_files runs no record changes, and every change a trigger-indexing
   request makes to a record is made after index_files has returned, by the
   loop of run_indexing that writes the outcomes or by the loop of its
   except branch. *)
C24_PipelineLeavesStatusStore ==
    [][/\ req.pc = "index" => store' = store
       /\ (RequestStep /\ store' # store) => req.pc \in {"mark", "fail"}]_vars

C24_Witness ==
    /\ req.pc = "mark" /\ req.i = 1
    /\ Len(req.valid_paths) = 2 /\ req.returned = <<TRUE, FALSE>>
    /\ Len(rows) > 0
    /\ store = req.snap
    /\ \A id \in DOMAIN store : store[id].status = "PENDING"

(* C26 as stated: when the vector side reports failure because the index
   table is absent, the remove endpoint answers 404 and changes no status
   record. *)
C26_AbsentTableIsNotFound ==
    [][(call'.op = "delete_indexed_file" /\ quota' # quota
        /\ ~tableExists /\ call'.env = "ok")
       => (call'.pc = "done" /\ call'.http = 404 /\ store' = store)]_vars


(* C29: a modified or deleted notification whose lookup finds no record at
   its path changes nothing in the status store: no record is created, every
   record keeps its id, path, name and status, and the coroutine ends there
   with no mutating statement executed. *)
C29_UntrackedPathChangesNothing ==
    [][\A i \in TaskIds :
          (/\ Steps(i)
           /\ tasks[i].kind \in {"modified", "deleted"} /\ tasks[i].pc = "start"
           /\ IdsAtPath(store, tasks[i].src) = {})
          => /\ store' = store
             /\ tasks'[i].pc = "done" /\ tasks'[i].muts = 0]_vars

C29_Witness ==
    /\ DOMAIN store # {}
    /\ \E i, j \in TaskIds :
        /\ tasks[i].kind = "modified" /\ tasks[i].pc = "done"
        /\ tasks[i].existing = None /\ tasks[i].muts = 0
        /\ tasks[j].kind = "deleted" /\ tasks[j].pc = "done"
        /\ tasks[j].existing = None /\ tasks[j].muts = 0


(* the loop of run_indexing writes the outcome of the file of record id *)
Marks(id) ==
    /\ req.pc = "mark" /\ RequestStep
    /\ req.file_ids[req.i] = id

(* a modified notification has been applied to record id since index_files
   read the files *)
ModifiedSinceRead(id) ==
    /\ id \in DOMAIN store /\ store[id].status = "MODIFIED"
    /\ id \in DOMAIN req.read /\ req.read[id].status # "MODIFIED"
    /\ \E i \in TaskIds :
          tasks[i].kind = "modified" /\ tasks[i].pc = "done" /\ tasks[i].existing = id

(* C27 as stated: a modification is never lost to an indexing run. When a
   modified notification is applied to a record after the request has read
   the file and before the request writes the outcome of that file, the
   request leaves the record MODIFIED or ERROR, not SYNCED. *)
C27_ModificationNotLost ==
    [][\A id \in DOMAIN store :
          (Marks(id) /\ ModifiedSinceRead(id))
          => (id \in DOMAIN store' /\ store'[id].status \in {"MODIFIED", "ERROR"})]_vars


(* C22 as stated: when a failure propagates out of the indexing step of a
   trigger-indexing request, a file of the batch that index_files indexed
   successfully, marked SYNCED already or not, is not marked ERROR. *)
C22_ProcessedKeepOutcome ==
    [][\A k \in 1..Len(req.file_ids) :
          (/\ req.pc = "fail" /\ RequestStep /\ req.i = k
           /\ req.returned[k]
           /\ req.file_ids[k] \in DOMAIN store
           /\ store[req.file_ids[k]].status # "ERROR")
          => store'[req.file_ids[k]].status # "ERROR"]_vars


(* the last call of the manager, and the step that is a call of it *)
Stopped == manager.last.op = "stop" /\ manager.last.held # None

ManagerStep == manager'.last.n # manager.last.n

(* C21 as stated: stop() first stops the acceptance of new notifications,
   and when it returns within the timeout every coroutine that earlier
   notifications handed to the loop has finished: none is still pending. *)
C21_StopDrainsInFlight ==
    Stopped =>
        /\ ~Accepting
        /\ manager.last.outcome = <<"ok">> => manager.last.pending = {}

Live == {k \in 1..Len(manager.threads) : manager.threads[k] = "running"}

(* at most one observer accepts notifications, the one the manager holds *)
OneLive ==
    /\ Cardinality(Live) <= 1
    /\ manager.observer # None => Live = {manager.observer}
    /\ manager.observer = None => Live = {}

(* C28: over any sequence of start, stop and restart calls at most one
   observer is live, the one held: start while an observer is held makes no
   second observer and changes nothing; stop while none is held changes
   nothing; after stop the manager holds no observer and is_running is False,
   whether or not stopping or joining raised; a start whose observer fails to
   start leaves the manager holding none. *)
C28_AtMostOneObserver ==
    [][/\ OneLive'
       /\ ManagerStep =>
            LET op == manager'.last.op
                outcome == manager'.last.outcome
            IN /\ (op = "start" /\ manager.observer # None) =>
                     (manager'.observer = manager.observer /\ manager'.threads = manager.threads)
               /\ (op = "stop" /\ manager.observer = None) =>
                     (manager'.observer = None /\ manager'.threads = manager.threads)
               /\ op = "stop" => (manager'.observer = None /\ ~is_running(manager'))
               /\ (op = "start" /\ manager.observer = None /\ outcome = <<"start_raises">>) =>
                     (manager'.observer = None /\ ~is_running(manager'))
               /\ (op = "restart" /\ outcome[2] = "ok") =>
                     (manager'.observer = Len(manager.threads) + 1 /\ is_running(manager'))]_vars

C28_Witness ==
    /\ manager.last.op = "restart" /\ manager.last.held = 1
    /\ manager.last.outcome = <<"join_timeout", "ok">>
    /\ manager.threads = <<"stopping", "running">>
    /\ manager.observer = 2 /\ is_running(manager)

C28_WitnessNoOp ==
    /\ manager.last.op = "start" /\ manager.last.held = 1
    /\ manager.threads = <<"running">> /\ manager.observer = 1
    /\ Len(tasks) = 1

C28_WitnessRaised ==
    /\ Stopped /\ manager.last.outcome = <<"stop_raises">>
    /\ manager.observer = None /\ ~is_running(manager)

====
